---- MODULE Spec2Model ----
(***************************************************************************)
(* Model of faFFTool.py: the FNV-1 hash primitive (hashFNV1), the minimal  *)
(* perfect hash builder (createMinimalPerfectHash), the lookup (lookUp)    *)
(* and the binary codec (encoder of createFile, loadFile,                  *)
(* loadAndCheckFile, checkFile).                                           *)
(*                                                                         *)
(* Python integers are unbounded, TLC integers are 32 bit.  Every Python   *)
(* integer that can leave the 32-bit signed range (the hash state, the     *)
(* collision counter, 2**32 + g) is kept as a pair <<hi, lo>> standing for *)
(* hi * 2^16 + lo with 0 <= lo < 2^16.                                     *)
(***************************************************************************)
EXTENDS Integers, Sequences, FiniteSets, TLC

(***************************************************************************)
(* Bounds of the model.                                                    *)
(***************************************************************************)
MaxKeys == 4       \* largest number of keys of a source mapping
NumCodes == 4      \* the key universe is U+0041.. (NumCodes codes) and U+FFFD
MaxLen == 3        \* longest byte string hashed in SpecHash
MaxEntries == 2    \* most entries of a font artifact that is encoded

(***************************************************************************)
(* Constants of faFFTool.py (lines 33-36).  FNV1OFFSET = 0x811c9dc5 does   *)
(* not fit a TLC integer and is written as its two 16-bit limbs.           *)
(***************************************************************************)
FNV1PRIME == 16777619
FNV1OFFSET == <<33052, 40389>>
FNV1MASK == 2147483647
MAXUCODE == 1114111

(***************************************************************************)
(* Unbounded integers as <<hi, lo>>.                                       *)
(***************************************************************************)
Limb == 256 * 256

Big(int) == <<int \div Limb, int % Limb>>

BigFits(b) == b[1] >= -(Limb \div 2) /\ b[1] < Limb \div 2

BigToInt(b) == b[1] * Limb + b[2]

BigAdd(a, b) == LET lo == a[2] + b[2]
                IN  <<a[1] + b[1] + (lo \div Limb), lo % Limb>>

BigLeq(a, b) == a[1] < b[1] \/ (a[1] = b[1] /\ a[2] <= b[2])

BigNeg(a) == IF a[2] = 0 THEN <<-a[1], 0>> ELSE <<-a[1] - 1, Limb - a[2]>>

BigIsNeg(a) == a[1] < 0

\* bit j of a non-negative integer
BitOf(a, j) == (a \div (2 ^ j)) % 2

\* Python's a & b and a ^ b on non-negative integers below 2^16
And16(a, b) ==
      1 * (BitOf(a, 0) * BitOf(b, 0))
    + 2 * (BitOf(a, 1) * BitOf(b, 1))
    + 4 * (BitOf(a, 2) * BitOf(b, 2))
    + 8 * (BitOf(a, 3) * BitOf(b, 3))
    + 16 * (BitOf(a, 4) * BitOf(b, 4))
    + 32 * (BitOf(a, 5) * BitOf(b, 5))
    + 64 * (BitOf(a, 6) * BitOf(b, 6))
    + 128 * (BitOf(a, 7) * BitOf(b, 7))
    + 256 * (BitOf(a, 8) * BitOf(b, 8))
    + 512 * (BitOf(a, 9) * BitOf(b, 9))
    + 1024 * (BitOf(a, 10) * BitOf(b, 10))
    + 2048 * (BitOf(a, 11) * BitOf(b, 11))
    + 4096 * (BitOf(a, 12) * BitOf(b, 12))
    + 8192 * (BitOf(a, 13) * BitOf(b, 13))
    + 16384 * (BitOf(a, 14) * BitOf(b, 14))
    + 32768 * (BitOf(a, 15) * BitOf(b, 15))

Xor16(a, b) ==
      1 * ((BitOf(a, 0) + BitOf(b, 0)) % 2)
    + 2 * ((BitOf(a, 1) + BitOf(b, 1)) % 2)
    + 4 * ((BitOf(a, 2) + BitOf(b, 2)) % 2)
    + 8 * ((BitOf(a, 3) + BitOf(b, 3)) % 2)
    + 16 * ((BitOf(a, 4) + BitOf(b, 4)) % 2)
    + 32 * ((BitOf(a, 5) + BitOf(b, 5)) % 2)
    + 64 * ((BitOf(a, 6) + BitOf(b, 6)) % 2)
    + 128 * ((BitOf(a, 7) + BitOf(b, 7)) % 2)
    + 256 * ((BitOf(a, 8) + BitOf(b, 8)) % 2)
    + 512 * ((BitOf(a, 9) + BitOf(b, 9)) % 2)
    + 1024 * ((BitOf(a, 10) + BitOf(b, 10)) % 2)
    + 2048 * ((BitOf(a, 11) + BitOf(b, 11)) % 2)
    + 4096 * ((BitOf(a, 12) + BitOf(b, 12)) % 2)
    + 8192 * ((BitOf(a, 13) + BitOf(b, 13)) % 2)
    + 16384 * ((BitOf(a, 14) + BitOf(b, 14)) % 2)
    + 32768 * ((BitOf(a, 15) + BitOf(b, 15)) % 2)

\* the same, with each operand evaluated once and then bound
BitAnd(x, y) == CHOOSE r \in { And16(a, b) : a \in {x}, b \in {y} } : TRUE

BitXor(x, y) == CHOOSE r \in { Xor16(a, b) : a \in {x}, b \in {y} } : TRUE

(***************************************************************************)
(* hashFNV1 (lines 49-55).                                                 *)
(***************************************************************************)
\* one pass of the loop body, line 54:
\*   seed = ((seed * FNV1PRIME) & FNV1MASK) ^ valueByte
\* for a seed st = <<hi, lo>>: the product is formed limb by limb and only
\* its two low limbs are kept, which is all that a mask below 2^32 can select.
MulMaskXor(st, valueByte) ==
    LET pl     == FNV1PRIME % Limb
        ph     == FNV1PRIME \div Limb
        low    == st[2] * pl
        prodLo == low % Limb
        prodHi == ((st[1] % Limb) * pl + st[2] * ph + (low \div Limb)) % Limb
        andHi  == BitAnd(prodHi, FNV1MASK \div Limb)
        andLo  == BitAnd(prodLo, FNV1MASK % Limb)
    IN  <<andHi, BitXor(andLo, valueByte)>>

\* the same, with the seed evaluated once and then bound
HashStep(seedIn, valueByte) ==
    CHOOSE r \in { MulMaskXor(st, valueByte) : st \in {seedIn} } : TRUE

\* line 52: if seed == 0: seed = FNV1OFFSET
SeedOrOffset(sd) == IF sd = <<0, 0>> THEN FNV1OFFSET ELSE sd

\* lines 53-55: the loop over the bytes of value, from byte idx on
RECURSIVE HashLoop(_, _, _)
HashLoop(val, acc, idx) ==
    IF idx > Len(val) THEN acc
    ELSE HashLoop(val, HashStep(acc, val[idx]), idx + 1)

\* hashFNV1(value, seed); seed is a <<hi, lo>> integer, and so is the result
hashFNV1(value, seed) == HashLoop(value, SeedOrOffset(seed), 1)

\* hashFNV1(value): the seed parameter takes its default FNV1OFFSET
hashFNV1Default(value) == hashFNV1(value, FNV1OFFSET)

(***************************************************************************)
(* Inputs: the key universe and the source mappings.                       *)
(***************************************************************************)
\* uCode.to_bytes(3,"big"), line 286
uCodeBytes(uCode) == <<uCode \div Limb, (uCode \div 256) % 256, uCode % 256>>

REPLACEMENT == uCodeBytes(65533)      \* b"\x00\xff\xfd", lines 203, 335, 439

KeyCodes == (65 .. (65 + NumCodes - 1)) \cup {65533}
Keys == { uCodeBytes(c) : c \in KeyCodes }

\* two assignments of glyph bitmaps to keys: all distinct, all equal
Glyph(variant, key) == IF variant = 1 THEN <<key[3]>> ELSE <<0>>

\* the key orders (dict insertion orders) of at most MaxKeys distinct keys
KeyOrders ==
    { ks \in UNION { [1..m -> Keys] : m \in 0..MaxKeys } :
        \A a, b \in DOMAIN ks : a # b => ks[a] # ks[b] }

None == <<>>

VARIABLES
    source,        \* the dict: <<key, bitmap>> pairs in insertion order
    nKeys, nCheck, nCollisions,
    buckets, G, V,
    keyIdx,        \* position of the loop of line 77 in source.keys()
    bucket, seed, k, slots,
    pc,            \* where createMinimalPerfectHash stands
    raised,        \* the exception createMinimalPerfectHash ended with
    lookupKey, lookupResult

buildVars == <<source, nKeys, nCheck, nCollisions, buckets, G, V, keyIdx,
               bucket, seed, k, slots, pc, raised, lookupKey, lookupResult>>

\* one call of hashFNV1, followed step by step
VARIABLES
    hValue,        \* the parameter value
    hSeed,         \* the variable seed
    hIdx,          \* position of the loop of line 53 in value
    hPc            \* where hashFNV1 stands

hashVars == <<hValue, hSeed, hIdx, hPc>>

\* createFile from line 341 on, loadFile, loadAndCheckFile and checkFile
VARIABLES
    artifact,      \* width, height, G and V that createFile encodes
    infile,        \* the bytes of the file that loadFile reads
    pos,           \* the read position in infile
    width, height, nChars,
    fPc,           \* where the codec stands
    fRaised,       \* the exception loadFile or loadAndCheckFile ended with
    exitCode       \* what checkFile returned

fileVars == <<artifact, infile, pos, width, height, nChars, fPc, fRaised,
              exitCode>>

\* two calls of createMinimalPerfectHash on one mapping
VARIABLES
    firstRun       \* what the first of the two calls was given and ended with

orderVars == <<firstRun>>

vars == <<buildVars, hashVars, fileVars, orderVars>>

\* source[key], lines 106 and 126
SourceValue(key) ==
    LET i == CHOOSE j \in DOMAIN source : source[j][1] = key IN source[i][2]

SourceKeys == { source[j][1] : j \in DOMAIN source }

\* hashFNV1(key) % nKeys, lines 78, 104, 125, 138
Primary(key, n) == BigToInt(hashFNV1Default(key)) % n

\* hashFNV1(key, seed) % nKeys, lines 91 and 143
Secondary(key, sd, n) == BigToInt(hashFNV1(key, sd)) % n

(***************************************************************************)
(* createMinimalPerfectHash (lines 58-134).                                *)
(***************************************************************************)
\* before createMinimalPerfectHash is called
InitBuild ==
    /\ source = <<>>
    /\ nKeys = 0
    /\ nCheck = 0
    /\ nCollisions = Big(0)
    /\ buckets = <<>>
    /\ G = <<>>
    /\ V = <<>>
    /\ keyIdx = 1
    /\ bucket = <<>>
    /\ seed = Big(0)
    /\ k = 0
    /\ slots = <<>>
    /\ pc = "idle"
    /\ raised = "none"
    /\ lookupKey = None
    /\ lookupResult = [status |-> "none", value |-> None]

\* before hashFNV1 is called
InitHash ==
    /\ hValue = <<>>
    /\ hSeed = Big(0)
    /\ hIdx = 1
    /\ hPc = "idle"

\* before createFile reaches line 341 and before loadFile is called
InitFile ==
    /\ artifact = None
    /\ infile = <<>>
    /\ pos = 0
    /\ width = 0
    /\ height = 0
    /\ nChars = Big(0)
    /\ fPc = "idle"
    /\ fRaised = "none"
    /\ exitCode = -1

\* before createMinimalPerfectHash was called a first time
InitOrder == firstRun = None

Init == InitBuild /\ InitHash /\ InitFile /\ InitOrder

\* lines 68-74: createMinimalPerfectHash is called with a mapping
EnterBuild ==
    /\ pc = "idle"
    /\ \E ks \in KeyOrders, variant \in 1..2 :
          source' = [i \in DOMAIN ks |-> <<ks[i], Glyph(variant, ks[i])>>]
    /\ nKeys' = Len(source')
    /\ nCheck' = 0
    /\ nCollisions' = Big(0)
    /\ buckets' = [i \in 1..Len(source') |-> <<>>]
    /\ G' = [i \in 1..Len(source') |-> Big(0)]
    /\ V' = [i \in 1..Len(source') |-> None]
    /\ keyIdx' = 1
    /\ pc' = "step1"
    /\ UNCHANGED <<bucket, seed, k, slots, raised, lookupKey, lookupResult>>
    /\ UNCHANGED <<hashVars, fileVars, orderVars>>

\* lines 77-78: one pass of the loop over source.keys()
AddToBucket ==
    /\ pc = "step1"
    /\ keyIdx <= Len(source)
    /\ LET key == source[keyIdx][1]
       IN  buckets' = [buckets EXCEPT
                         ![Primary(key, nKeys) + 1] = Append(@, key)]
    /\ keyIdx' = keyIdx + 1
    /\ UNCHANGED <<source, nKeys, nCheck, nCollisions, G, V, bucket, seed, k,
                   slots, pc, raised, lookupKey, lookupResult>>
    /\ UNCHANGED <<hashVars, fileVars, orderVars>>

\* buckets.sort(key=len, reverse=True): stable, so buckets of equal length
\* keep their order; bs sorted for lengths len down to 0
SortByLenInsertionTies(bs, len) ==
    LET Tie(a) == IF bs[a] = <<>> THEN a
                  ELSE CHOOSE j \in DOMAIN source : source[j][1] = bs[a][1]
        Before(a, b) == \/ Len(bs[a]) > Len(bs[b])
                        \/ Len(bs[a]) = Len(bs[b]) /\ Tie(a) < Tie(b)
        Rank(a) == 1 + Cardinality({ b \in DOMAIN bs : Before(b, a) })
    IN  [r \in DOMAIN bs |-> bs[CHOOSE a \in DOMAIN bs : Rank(a) = r]]
RECURSIVE SortByLen(_, _)
SortByLen(bs, len) ==
    IF len < 0 THEN <<>>
    ELSE SelectSeq(bs, LAMBDA b : Len(b) = len) \o SortByLen(bs, len - 1)

\* line 81, reached when the loop of line 77 is over
SortBuckets ==
    /\ pc = "step1"
    /\ keyIdx > Len(source)
    /\ buckets' = SortByLen(buckets, nKeys)
    /\ pc' = "step3"
    /\ UNCHANGED <<source, nKeys, nCheck, nCollisions, G, V, keyIdx, bucket,
                   seed, k, slots, raised, lookupKey, lookupResult>>
    /\ UNCHANGED <<hashVars, fileVars, orderVars>>

\* line 84: the condition of the loop of step 3
MoreMultiBuckets == Len(buckets) > 0 /\ Len(buckets[1]) > 1

\* lines 85-88
PopBucket ==
    /\ pc = "step3"
    /\ MoreMultiBuckets
    /\ bucket' = Head(buckets)
    /\ buckets' = Tail(buckets)
    /\ seed' = Big(1)
    /\ k' = 0
    /\ slots' = <<>>
    /\ pc' = "search"
    /\ UNCHANGED <<source, nKeys, nCheck, nCollisions, G, V, keyIdx, raised,
                   lookupKey, lookupResult>>
    /\ UNCHANGED <<hashVars, fileVars, orderVars>>

\* line 92: V[slot] is not None or slot in slots
SlotTakenInTable(slot, taken) == V[slot + 1] # None
SlotTaken(slot, taken) ==
    V[slot + 1] # None \/ \E i \in DOMAIN taken : taken[i] = slot

\* line 95: seed >= FNV1MASK
SeedExhaustedEarly(sd) == BigLeq(Big(FNV1MASK - 1), sd)
SeedExhausted(sd) == BigLeq(Big(FNV1MASK), sd)
\* the inner loop of lines 90-102 run with seed sd from k = 0: TRUE when it
\* reaches the branch of line 93 (some key of the bucket meets a used slot)
SeedRejected(sd) ==
    \E j \in 1..Len(bucket) :
        LET sj == Secondary(bucket[j], sd, nKeys)
        IN  \/ V[sj + 1] # None
            \/ \E i \in 1..(j - 1) : Secondary(bucket[i], sd, nKeys) = sj

IsPowerOfTwo(n) == \E e \in 0..30 : n = 2 ^ e

\* When nKeys = 2^e, hashFNV1(key, s) % nKeys depends on s % nKeys only
\* (every step of line 54 is a multiplication, a mask below 2^31 and an
\* exclusive or, all compatible with reduction modulo 2^e).  If the nKeys
\* consecutive seeds from the current one are all rejected, every later seed
\* is rejected as well, and the loop of lines 90-102 runs on, one rejection
\* after the other, until line 95 stops it.
SearchIsPeriodic ==
    /\ k = 0
    /\ slots = <<>>
    /\ IsPowerOfTwo(nKeys)
    /\ BigLeq(BigAdd(seed, Big(nKeys)), Big(FNV1MASK))
    /\ \A d \in 0..(nKeys - 1) : SeedRejected(BigAdd(seed, Big(d)))

\* lines 90-102: one pass of the inner loop
TrySlot ==
    /\ pc = "search"
    /\ k < Len(bucket)
    /\ ~SearchIsPeriodic
    /\ LET slot == Secondary(bucket[k + 1], seed, nKeys)
       IN  IF SlotTaken(slot, slots)
           THEN IF SeedExhausted(seed)
                THEN /\ pc' = "raised"
                     /\ raised' = "ValueError: Hash seed exceeded 32 bit."
                     /\ UNCHANGED <<seed, k, slots, nCollisions>>
                ELSE /\ seed' = BigAdd(seed, Big(1))
                     /\ k' = 0
                     /\ slots' = <<>>
                     /\ nCollisions' = BigAdd(nCollisions, Big(1))
                     /\ UNCHANGED <<pc, raised>>
           ELSE /\ slots' = Append(slots, slot)
                /\ k' = k + 1
                /\ UNCHANGED <<seed, nCollisions, pc, raised>>
    /\ UNCHANGED <<source, nKeys, nCheck, buckets, G, V, keyIdx, bucket,
                   lookupKey, lookupResult>>
    /\ UNCHANGED <<hashVars, fileVars, orderVars>>

\* lines 90-102 taken many times in a row: under SearchIsPeriodic the next
\* m seeds are all rejected, m the largest multiple of nKeys that keeps the
\* seed at or below FNV1MASK; each rejection is lines 95-99 with the test of
\* line 95 false.  The last seeds up to FNV1MASK are left to TrySlot.
RejectPeriods ==
    /\ pc = "search"
    /\ k < Len(bucket)
    /\ SearchIsPeriodic
    /\ LET m == nKeys * ((FNV1MASK - BigToInt(seed)) \div nKeys)
       IN  /\ seed' = BigAdd(seed, Big(m))
           /\ nCollisions' = BigAdd(nCollisions, Big(m))
    /\ UNCHANGED <<source, nKeys, nCheck, buckets, G, V, keyIdx, bucket, k,
                   slots, pc, raised, lookupKey, lookupResult>>
    /\ UNCHANGED <<hashVars, fileVars, orderVars>>

\* lines 105-106: V after the bucket is spread to its slots
SpreadBucket(b, ss) ==
    [i \in 1..Len(V) |->
        IF \E j \in DOMAIN ss : ss[j] + 1 = i
        THEN LET j == CHOOSE c \in DOMAIN ss :
                         /\ ss[c] + 1 = i
                         /\ \A d \in DOMAIN ss : ss[d] + 1 = i => d <= c
             IN  <<b[j], SourceValue(b[j])>>
        ELSE V[i]]

\* lines 103-107, reached when the inner loop is over
RecordSeed ==
    /\ pc = "search"
    /\ k >= Len(bucket)
    /\ G' = [G EXCEPT ![Primary(bucket[1], nKeys) + 1] = seed]
    /\ V' = SpreadBucket(bucket, slots)
    /\ nCheck' = nCheck + Len(slots)
    /\ pc' = "step3"
    /\ UNCHANGED <<source, nKeys, nCollisions, buckets, keyIdx, bucket, seed,
                   k, slots, raised, lookupKey, lookupResult>>
    /\ UNCHANGED <<hashVars, fileVars, orderVars>>

\* line 112, reached when the loop of step 3 is over
EnterStep4 ==
    /\ pc = "step3"
    /\ ~MoreMultiBuckets
    /\ k' = 0
    /\ pc' = "step4"
    /\ UNCHANGED <<source, nKeys, nCheck, nCollisions, buckets, G, V, keyIdx,
                   bucket, seed, slots, raised, lookupKey, lookupResult>>
    /\ UNCHANGED <<hashVars, fileVars, orderVars>>

\* line 113: the condition of the loop of step 4
MoreSingleBucketsButLast == Len(buckets) > 1 /\ Len(buckets[1]) > 0
MoreSingleBuckets == Len(buckets) > 0 /\ Len(buckets[1]) > 0

\* lines 116-121: k after the scan for the next free slot, started at from
NextFreeNoScan(from) == from
RECURSIVE NextFree(_)
NextFree(from) ==
    IF from < Len(V) /\ V[from + 1] # None THEN NextFree(from + 1) ELSE from

\* lines 114-127: one pass of the loop of step 4
PlaceSingle ==
    /\ pc = "step4"
    /\ MoreSingleBuckets
    /\ bucket' = Head(buckets)
    /\ buckets' = Tail(buckets)
    /\ k' = NextFree(k)
    /\ IF NextFree(k) >= Len(V)
       THEN /\ pc' = "raised"
            /\ raised' = "IndexError: No free slots left."
            /\ UNCHANGED <<G, V, nCheck>>
       ELSE LET slot == NextFree(k)
                key  == Head(buckets)[1]
            IN  /\ G' = [G EXCEPT ![Primary(key, nKeys) + 1] = Big(-slot - 1)]
                /\ V' = [V EXCEPT ![slot + 1] = <<key, SourceValue(key)>>]
                /\ nCheck' = nCheck + 1
                /\ UNCHANGED <<pc, raised>>
    /\ UNCHANGED <<source, nKeys, nCollisions, keyIdx, seed, slots,
                   lookupKey, lookupResult>>
    /\ UNCHANGED <<hashVars, fileVars, orderVars>>

\* lines 130-134, reached when the loop of step 4 is over
Finish ==
    /\ pc = "step4"
    /\ ~MoreSingleBuckets
    /\ IF nKeys = nCheck
       THEN pc' = "returned" /\ UNCHANGED raised
       ELSE /\ pc' = "raised"
            /\ raised' = "ValueError: Mismatch between number of keys and number of processed keys."
    /\ UNCHANGED <<source, nKeys, nCheck, nCollisions, buckets, G, V, keyIdx,
                   bucket, seed, k, slots, lookupKey, lookupResult>>
    /\ UNCHANGED <<hashVars, fileVars, orderVars>>

(***************************************************************************)
(* lookUp (lines 137-147).  Gt and Vt are the Python lists G and V as      *)
(* functions on 0..len-1; every caller passes nKeys = len(G) = len(V)      *)
(* (lines 203, 335, 437, 439).                                             *)
(***************************************************************************)
Outcome(st, val) == [status |-> st, value |-> val]

\* line 141: v = -g-1
DirectSlotNoOffset(g) == BigToInt(BigNeg(g))
DirectSlot(g) == BigToInt(BigAdd(BigNeg(g), Big(-1)))

\* line 144: V[v][0] == key
KeyMatchesAlways(entry, key) == TRUE
KeyMatches(entry, key) == entry[1] = key

lookUp(n, Gt, Vt, key) ==
    IF n = 0 THEN Outcome("ZeroDivisionError", None)
    ELSE
    LET g == Gt[Primary(key, n)]
        v == IF BigIsNeg(g) THEN DirectSlot(g) ELSE Secondary(key, g, n)
    IN  IF v >= n THEN Outcome("IndexError", None)
        ELSE IF Vt[v] = None THEN Outcome("TypeError", None)
        ELSE IF KeyMatches(Vt[v], key) THEN Outcome("returned", Vt[v][2])
        ELSE Outcome("KeyError", None)

\* the lists G and V of line 131, indexed from 0 as in Python
BuiltG == [i \in 0..(Len(G) - 1) |-> G[i + 1]]
BuiltV == [i \in 0..(Len(V) - 1) |-> V[i + 1]]

\* lookUp(len(G), G, V, key) on the tables the builder returned
LookUpBuilt ==
    /\ pc = "returned"
    /\ \E key \in Keys :
        /\ lookupKey' = key
        /\ lookupResult' = lookUp(nKeys, BuiltG, BuiltV, key)
    /\ UNCHANGED <<source, nKeys, nCheck, nCollisions, buckets, G, V, keyIdx,
                   bucket, seed, k, slots, pc, raised>>
    /\ UNCHANGED <<hashVars, fileVars, orderVars>>

Next ==
    \/ EnterBuild
    \/ AddToBucket
    \/ SortBuckets
    \/ PopBucket
    \/ TrySlot
    \/ RejectPeriods
    \/ RecordSeed
    \/ EnterStep4
    \/ PlaceSingle
    \/ Finish
    \/ LookUpBuilt

Spec == Init /\ [][Next]_vars

\* the steps of createMinimalPerfectHash; the function runs to its end
\* without suspension, so each of its steps is taken once it is enabled
BuildNext ==
    \/ EnterBuild
    \/ AddToBucket
    \/ SortBuckets
    \/ PopBucket
    \/ TrySlot
    \/ RejectPeriods
    \/ RecordSeed
    \/ EnterStep4
    \/ PlaceSingle
    \/ Finish

SpecLive == Spec /\ WF_vars(BuildNext)

(***************************************************************************)
(* hashFNV1 (lines 49-55) called on its own and followed step by step.     *)
(***************************************************************************)
\* the bytes and the seeds the calls are made with; 2^32 - 1 is the largest
\* seed whose product line 54 forms here
HashBytes == {0, 65, 255}
HashValues == UNION { [1..m -> HashBytes] : m \in 0..MaxLen }
HashSeeds == { Big(0), Big(1), Big(2), Big(FNV1MASK), <<Limb \div 2, 0>>,
               <<Limb - 1, Limb - 1>> }

\* lines 49-52: the call, with the seed given or left to its default
HashEnter ==
    /\ hPc = "idle"
    /\ \E value \in HashValues, sd \in HashSeeds \cup {FNV1OFFSET} :
          /\ hValue' = value
          /\ hSeed' = SeedOrOffset(sd)
    /\ hIdx' = 1
    /\ hPc' = "loop"
    /\ UNCHANGED <<buildVars, fileVars, orderVars>>

\* lines 53-54: one pass of the loop
HashByte ==
    /\ hPc = "loop"
    /\ hIdx <= Len(hValue)
    /\ hSeed' = HashStep(hSeed, hValue[hIdx])
    /\ hIdx' = hIdx + 1
    /\ UNCHANGED <<hValue, hPc, buildVars, fileVars, orderVars>>

\* line 55: return seed
HashReturn ==
    /\ hPc = "loop"
    /\ hIdx > Len(hValue)
    /\ hPc' = "returned"
    /\ UNCHANGED <<hValue, hSeed, hIdx, buildVars, fileVars, orderVars>>

NextHash ==
    \/ HashEnter
    \/ HashByte
    \/ HashReturn

SpecHash == Init /\ [][NextHash]_vars

\* C5 (hash range): the result of hashFNV1 lies in [0, 0x7FFFFFFF] for
\* every byte sequence and every seed, the default seed included.
C5_HashInRange ==
    hPc = "returned" =>
        (BigLeq(Big(0), hSeed) /\ BigLeq(hSeed, Big(FNV1MASK)))

(***************************************************************************)
(* Files.  The bytes of a file are a sequence of segments, each a byte     *)
(* pattern repeated rep times, so that a file of 0x110000 table entries    *)
(* stays a small value.  Positions count from 0 as in Python.              *)
(***************************************************************************)
Min(a, b) == IF a < b THEN a ELSE b

Segment(pat, rep) == [pat |-> pat, rep |-> rep]

SegLen(sg) == Len(sg.pat) * sg.rep

RECURSIVE StreamLen(_)
StreamLen(st) ==
    IF st = <<>> THEN 0 ELSE SegLen(Head(st)) + StreamLen(Tail(st))

RECURSIVE ByteAt(_, _)
ByteAt(st, i) ==
    IF i < SegLen(Head(st))
    THEN Head(st).pat[(i % Len(Head(st).pat)) + 1]
    ELSE ByteAt(Tail(st), i - SegLen(Head(st)))

\* args.infile.read(size) at position p: size bytes, fewer at the end
Read(st, p, size) ==
    [j \in 1..Min(size, StreamLen(st) - p) |-> ByteAt(st, p + j - 1)]

\* int.to_bytes(4,"big") of a <<hi, lo>> integer in [0, 2^32), lines 348, 354
ToBytes4(b) == <<b[1] \div 256, b[1] % 256, b[2] \div 256, b[2] % 256>>

\* struct.unpack(">I", bytes): unsigned, as in the "I" of line 157
UnpackUInt32(bs) == <<bs[1] * 256 + bs[2], bs[3] * 256 + bs[4]>>

\* struct.unpack(">i", bytes), line 167: signed two's complement
UnpackInt32Unsigned(bs) == <<bs[1] * 256 + bs[2], bs[3] * 256 + bs[4]>>
UnpackInt32(bs) ==
    IF bs[1] >= 128
    THEN <<bs[1] * 256 + bs[2] - Limb, bs[3] * 256 + bs[4]>>
    ELSE <<bs[1] * 256 + bs[2], bs[3] * 256 + bs[4]>>

\* the bytes of one bitmap, lines 170 and 244: width * ((height-1)//8 + 1)
BitmapSize(w, h) == w * ((h - 1) \div 8 + 1)

RECURSIVE Flatten(_)
Flatten(ss) == IF ss = <<>> THEN <<>> ELSE Head(ss) \o Flatten(Tail(ss))

(***************************************************************************)
(* createFile from line 341 on: the encoder.                               *)
(***************************************************************************)
\* line 353: if g < 0: g = 0x100000000 + g
TwosComplement(g) == IF BigIsNeg(g) THEN BigAdd(<<Limb, 0>>, g) ELSE g

\* lines 342-359: the bytes of output
EncodeArtifact(a) ==
    <<250, 255>>
    \o <<a.width>>
    \o <<a.height>>
    \o ToBytes4(Big(Len(a.G)))
    \o Flatten([i \in DOMAIN a.G |-> ToBytes4(TwosComplement(a.G[i]))])
    \o Flatten([i \in DOMAIN a.V |-> a.V[i][1] \o a.V[i][2]])

\* the font artifacts that are encoded
Dims == { <<1, 1>>, <<2, 9>>, <<255, 8>> }
GSamples(n) == { Big(0), Big(FNV1MASK), Big(-1), Big(-n) }
SampleBitmap(w, h, fill) == [j \in 1..BitmapSize(w, h) |-> (fill + j) % 256]
VSamples(w, h) == { <<uCodeBytes(65), SampleBitmap(w, h, 0)>>,
                    <<REPLACEMENT, SampleBitmap(w, h, 165)>> }
Artifacts ==
    UNION { { [width |-> d[1], height |-> d[2], G |-> g, V |-> v] :
                g \in [1..n -> GSamples(n)],
                v \in [1..n -> VSamples(d[1], d[2])] } :
            d \in Dims, n \in 1..MaxEntries }

\* createFile reaches line 341 with width, height, G and V
EnterCreate ==
    /\ fPc = "idle"
    /\ \E a \in Artifacts : artifact' = a
    /\ fPc' = "encode"
    /\ UNCHANGED <<infile, pos, width, height, nChars, fRaised, exitCode>>
    /\ UNCHANGED <<buildVars, hashVars, orderVars>>

\* lines 341-368: output is built and written; the file is what a later
\* check or render run opens
Encode ==
    /\ fPc = "encode"
    /\ infile' = <<Segment(EncodeArtifact(artifact), 1)>>
    /\ pos' = 0
    /\ fPc' = "signature"
    /\ UNCHANGED <<artifact, width, height, nChars, fRaised, exitCode>>
    /\ UNCHANGED <<buildVars, hashVars, orderVars>>

(***************************************************************************)
(* The files loadFile is given that no encoder wrote: a signature, the     *)
(* six header bytes, gN table entries of G, vN entries of V and some       *)
(* further bytes, any of which may be missing or wrong.                    *)
(***************************************************************************)
Magics == { <<250, 255>>, <<250, 254>>, <<250>> }
RawWidths == {0, 1, 255}
RawHeights == {0, 1, 9}
RawCounts == { Big(0), Big(1), Big(2), Big(MAXUCODE), Big(MAXUCODE + 1),
               <<Limb - 1, Limb - 1>> }

\* how much of the tables follows a header that declares n entries of
\* entry bytes each: <<entries of G, entries of V, further bytes>>
RawBodies(n, entry) ==
    IF BigLeq(n, Big(MAXUCODE + 1))
    THEN LET c == BigToInt(n)
         IN  { <<c, c, 0>>, <<c, c, 1>>, <<0, 0, 0>> }
             \cup (IF c >= 1 THEN { <<c, c - 1, entry - 1>>, <<c - 1, 0, 3>> }
                   ELSE {})
    ELSE { <<2, 2, 0>>, <<0, 0, 0>> }

RawStream(magic, w, h, n, body) ==
    << Segment(magic \o <<w, h>> \o ToBytes4(n), 1),
       Segment(<<0, 0, 0, 0>>, body[1]),
       Segment(REPLACEMENT \o [j \in 1..BitmapSize(w, h) |-> 0], body[2]),
       Segment(<<0>>, body[3]) >>

RawStreams ==
    { RawStream(m, w, h, n, b) :
        m \in Magics, w \in RawWidths, h \in RawHeights, n \in RawCounts,
        b \in UNION { RawBodies(c, BitmapSize(x, y) + 3) :
                        c \in RawCounts, x \in RawWidths, y \in RawHeights } }
    \cup { <<Segment(<<250, 255, 1, 1, 0>>, 1)>>, <<Segment(<<>>, 0)>> }

(***************************************************************************)
(* loadFile (lines 150-175).                                               *)
(***************************************************************************)
\* loadFile is called on a file that was not written by the encoder
EnterLoad ==
    /\ fPc = "idle"
    /\ \E raw \in RawStreams : infile' = raw
    /\ pos' = 0
    /\ fPc' = "signature"
    /\ UNCHANGED <<artifact, width, height, nChars, fRaised, exitCode>>
    /\ UNCHANGED <<buildVars, hashVars, orderVars>>

\* lines 153-154
ReadSignature ==
    /\ fPc = "signature"
    /\ pos' = pos + Len(Read(infile, pos, 2))
    /\ IF Read(infile, pos, 2) # <<250, 255>>
       THEN /\ fRaised' = "ValueError: File signature not found."
            /\ fPc' = "loadRaised"
       ELSE /\ fPc' = "header"
            /\ UNCHANGED fRaised
    /\ UNCHANGED <<artifact, infile, width, height, nChars, exitCode>>
    /\ UNCHANGED <<buildVars, hashVars, orderVars>>

\* line 157: struct.unpack(">BBI", args.infile.read(6))
ReadHeader ==
    /\ fPc = "header"
    /\ pos' = pos + Len(Read(infile, pos, 6))
    /\ IF Len(Read(infile, pos, 6)) # 6
       THEN /\ fRaised' = "struct.error"
            /\ fPc' = "loadRaised"
            /\ UNCHANGED <<width, height, nChars>>
       ELSE LET data == Read(infile, pos, 6)
            IN  /\ width' = data[1]
                /\ height' = data[2]
                /\ nChars' = UnpackUInt32(SubSeq(data, 3, 6))
                /\ fPc' = "dimensions"
                /\ UNCHANGED fRaised
    /\ UNCHANGED <<artifact, infile, exitCode>>
    /\ UNCHANGED <<buildVars, hashVars, orderVars>>

\* lines 159-161
CheckDimensions ==
    /\ fPc = "dimensions"
    /\ IF width = 0
       THEN /\ fRaised' = "IndexError: Zero width detected."
            /\ fPc' = "loadRaised"
       ELSE IF height = 0
       THEN /\ fRaised' = "IndexError: Zero height detected."
            /\ fPc' = "loadRaised"
       ELSE IF nChars = Big(0)
       THEN /\ fRaised' = "IndexError: Empty table detected."
            /\ fPc' = "loadRaised"
       ELSE /\ fPc' = "tableG"
            /\ UNCHANGED fRaised
    /\ UNCHANGED <<artifact, infile, pos, width, height, nChars, exitCode>>
    /\ UNCHANGED <<buildVars, hashVars, orderVars>>

\* lines 167 and 173: n reads of size bytes each, with avail bytes left in
\* the file, all return size bytes (struct.unpack raises struct.error on a
\* shorter read)
TableCompleteRoundedUp(n, size, avail) ==
    BigLeq(n, Big((avail + size - 1) \div size))
TableComplete(n, size, avail) == BigLeq(n, Big(avail \div size))

\* line 167: the list comprehension that reads G
ReadG ==
    /\ fPc = "tableG"
    /\ IF TableComplete(nChars, 4, StreamLen(infile) - pos)
       THEN /\ pos' = pos + 4 * BigToInt(nChars)
            /\ fPc' = "tableV"
            /\ UNCHANGED fRaised
       ELSE /\ pos' = StreamLen(infile)
            /\ fRaised' = "struct.error"
            /\ fPc' = "loadRaised"
    /\ UNCHANGED <<artifact, infile, width, height, nChars, exitCode>>
    /\ UNCHANGED <<buildVars, hashVars, orderVars>>

\* lines 170-172
SizeEntryV == BitmapSize(width, height) + 3

\* lines 170-175: the list comprehension that reads V, and the return
ReadV ==
    /\ fPc = "tableV"
    /\ IF TableComplete(nChars, SizeEntryV, StreamLen(infile) - pos)
       THEN /\ pos' = pos + SizeEntryV * BigToInt(nChars)
            /\ fPc' = "loaded"
            /\ UNCHANGED fRaised
       ELSE /\ pos' = StreamLen(infile)
            /\ fRaised' = "struct.error"
            /\ fPc' = "loadRaised"
    /\ UNCHANGED <<artifact, infile, width, height, nChars, exitCode>>
    /\ UNCHANGED <<buildVars, hashVars, orderVars>>

\* G[i] and V[i] of the lists loadFile returns (lines 167, 173).  The file
\* is not written to after it is read, so the lists are kept as what the
\* reads at their positions return: G starts after the 8 bytes of signature
\* and header, V after G.
LoadedG ==
    [i \in 0..(BigToInt(nChars) - 1) |->
        UnpackInt32(Read(infile, 8 + 4 * i, 4))]
LoadedV ==
    [i \in 0..(BigToInt(nChars) - 1) |->
        LET off == 8 + 4 * BigToInt(nChars) + SizeEntryV * i
        IN  <<Read(infile, off, 3), Read(infile, off + 3, SizeEntryV - 3)>>]

(***************************************************************************)
(* loadAndCheckFile (lines 178-209) and checkFile (lines 387-398).         *)
(***************************************************************************)
\* lines 179-190: the exception of loadFile is printed and raised again
ReraiseLoadError ==
    /\ fPc = "loadRaised"
    /\ fPc' = "checkRaised"
    /\ UNCHANGED <<artifact, infile, pos, width, height, nChars, fRaised,
                   exitCode>>
    /\ UNCHANGED <<buildVars, hashVars, orderVars>>

\* lines 201-209: the replacement character is looked up
CheckReplacement ==
    /\ fPc = "loaded"
    /\ LET r == lookUp(BigToInt(nChars), LoadedG, LoadedV, REPLACEMENT)
       IN  IF r.status = "returned"
           THEN fPc' = "checked" /\ UNCHANGED fRaised
           ELSE fPc' = "checkRaised" /\ fRaised' = r.status
    /\ UNCHANGED <<artifact, infile, pos, width, height, nChars, exitCode>>
    /\ UNCHANGED <<buildVars, hashVars, orderVars>>

\* lines 388-398: checkFile returns 1 after an exception and 0 otherwise
ReturnCheckFile ==
    /\ fPc \in {"checked", "checkRaised"}
    /\ exitCode' = IF fPc = "checked" THEN 0 ELSE 1
    /\ fPc' = IF fPc = "checked" THEN "passed" ELSE "failed"
    /\ UNCHANGED <<artifact, infile, pos, width, height, nChars, fRaised>>
    /\ UNCHANGED <<buildVars, hashVars, orderVars>>

NextFile ==
    \/ EnterCreate
    \/ Encode
    \/ EnterLoad
    \/ ReadSignature
    \/ ReadHeader
    \/ CheckDimensions
    \/ ReadG
    \/ ReadV
    \/ ReraiseLoadError
    \/ CheckReplacement
    \/ ReturnCheckFile

SpecFile == Init /\ [][NextFile]_vars

(***************************************************************************)
(* Properties of the builder and of the lookup.                            *)
(***************************************************************************)
SeedExceeded == "ValueError: Hash seed exceeded 32 bit."

\* the G entries that hold a seed, and those that hold a direct slot
SeedEntries == { i \in DOMAIN G : ~BigIsNeg(G[i]) /\ G[i] # Big(0) }
DirectEntries == { i \in DOMAIN G : BigIsNeg(G[i]) }

\* C1 (lookup correctness): whenever createMinimalPerfectHash has returned
\* (G, V) for a mapping of n >= 1 keys, lookUp(n, G, V, k) returns
\* mapping[k] for every key k of the mapping, and the lookups performed on
\* the returned tables have produced exactly that.
C1_LookupCorrect ==
    (pc = "returned" /\ nKeys >= 1) =>
        /\ \A key \in SourceKeys :
              lookUp(nKeys, BuiltG, BuiltV, key)
                 = Outcome("returned", SourceValue(key))
        /\ (lookupKey \in SourceKeys) =>
              lookupResult = Outcome("returned", SourceValue(lookupKey))

\* a key of a three-key mapping was looked up through a seed >= 2, in
\* tables that also hold a direct slot
C1_Witness ==
    /\ pc = "returned"
    /\ nKeys >= 3
    /\ lookupKey \in SourceKeys
    /\ lookupResult.status = "returned"
    /\ BigLeq(Big(2), G[Primary(lookupKey, nKeys) + 1])
    /\ DirectEntries # {}

\* C2 (perfection): whenever createMinimalPerfectHash returns,
\* len(G) = len(V) = n, no slot of V is empty, every slot holds a
\* (key, value) pair of the mapping and every key of the mapping is in
\* exactly one slot.
C2_Perfect ==
    pc = "returned" =>
        /\ Len(G) = nKeys
        /\ Len(V) = nKeys
        /\ \A i \in DOMAIN V :
              /\ V[i] # None
              /\ V[i][1] \in SourceKeys
              /\ V[i][2] = SourceValue(V[i][1])
        /\ \A key \in SourceKeys :
              Cardinality({ i \in DOMAIN V : V[i] # None /\ V[i][1] = key }) = 1

\* tables were returned in which some keys were placed through a seed and
\* some directly
C2_Witness ==
    /\ pc = "returned"
    /\ nKeys >= 3
    /\ SeedEntries # {}
    /\ DirectEntries # {}

\* C3 (miss safety): on tables returned for a mapping of n >= 1 keys,
\* lookUp of a key that is not in the mapping raises KeyError.
C3_MissRaisesKeyError ==
    (pc = "returned" /\ nKeys >= 1) =>
        /\ \A key \in Keys \ SourceKeys :
              lookUp(nKeys, BuiltG, BuiltV, key) = Outcome("KeyError", None)
        /\ (lookupKey \in Keys \ SourceKeys) =>
              lookupResult = Outcome("KeyError", None)

\* a key outside the mapping was looked up and resolved, through a seed or
\* a direct slot, to the slot of another key
C3_Witness ==
    /\ pc = "returned"
    /\ nKeys >= 2
    /\ lookupKey \in Keys \ SourceKeys
    /\ lookupResult.status = "KeyError"
    /\ G[Primary(lookupKey, nKeys) + 1] # Big(0)

\* what holds of the seed in every state of the search
C6_SeedInRange ==
    /\ BigLeq(seed, Big(FNV1MASK))
    /\ \A i \in DOMAIN G : BigLeq(G[i], Big(FNV1MASK))
    /\ pc = "search" => BigLeq(Big(1), seed)
    /\ raised = SeedExceeded =>
          /\ pc = "raised"
          /\ seed = Big(FNV1MASK)
          /\ SeedRejected(seed)

\* what holds of every step of the search
C6_SeedStep ==
    /\ (pc # "search" /\ pc' = "search") => seed' = Big(1)
    /\ (pc = "search" /\ seed' # seed) =>
          /\ SeedRejected(seed)
          /\ \/ seed' = BigAdd(seed, Big(1))
             \/ /\ SearchIsPeriodic
                /\ BigLeq(seed, seed')
                /\ BigLeq(seed', Big(FNV1MASK))
    /\ pc = "raised" => (pc' = "raised" /\ G' = G /\ V' = V)

\* C6 (bounded seed search): createMinimalPerfectHash terminates for every
\* mapping; the search of a bucket starts at seed 1 and moves from a seed to
\* the next one only when the seed is rejected; it stops with the
\* ValueError of line 95 exactly when seed 0x7FFFFFFF itself has been
\* rejected; no seed above 0x7FFFFFFF is tried or stored in G, and after
\* the error nothing is returned.
C6_BoundedSeedSearch ==
    /\ []C6_SeedInRange
    /\ [][C6_SeedStep]_vars
    /\ <>(pc \in {"returned", "raised"})

\* the search of a bucket ran out of seeds
C6_Witness ==
    /\ pc = "raised"
    /\ raised = SeedExceeded
    /\ seed = Big(FNV1MASK)
    /\ Len(bucket) >= 2

\* the sum of G[i] - 1 over the entries of G that hold a seed
RECURSIVE SumRejected(_)
SumRejected(is) ==
    IF is = {} THEN Big(0)
    ELSE LET i == CHOOSE j \in is : TRUE
         IN  BigAdd(BigAdd(G[i], Big(-1)), SumRejected(is \ {i}))

\* what each bucket has added to the collision counter
C9_CollisionCount ==
    /\ pc \in {"step3", "step4", "returned"} =>
          nCollisions = SumRejected(SeedEntries)
    /\ pc = "search" =>
          nCollisions = BigAdd(SumRejected(SeedEntries), BigAdd(seed, Big(-1)))

\* what holds of the steps that take a bucket and that record its seed
C9_RecordStep ==
    /\ (pc = "step3" /\ pc' = "search") =>
          /\ Len(bucket') >= 2
          /\ \A i \in DOMAIN buckets' : Len(buckets'[i]) <= Len(bucket')
    /\ (pc = "search" /\ pc' = "step3") =>
          /\ G'[Primary(bucket[1], nKeys) + 1] = seed
          /\ BigLeq(Big(1), seed)
          /\ ~SeedRejected(seed)
          /\ \A s \in 1..(BigToInt(seed) - 1) : SeedRejected(Big(s))
          /\ \A j \in DOMAIN bucket :
                /\ Primary(bucket[j], nKeys) = Primary(bucket[1], nKeys)
                /\ V[Secondary(bucket[j], seed, nKeys) + 1] = None
                /\ V'[Secondary(bucket[j], seed, nKeys) + 1]
                      = <<bucket[j], SourceValue(bucket[j])>>
          /\ \A i \in DOMAIN V :
                (\A j \in DOMAIN bucket :
                     Secondary(bucket[j], seed, nKeys) + 1 # i) => V'[i] = V[i]

C10_OnlySeedExhaustionFails ==
    /\ raised \in {"none", SeedExceeded}
    /\ pc = "raised" => raised = SeedExceeded
    /\ (pc = "step4" /\ MoreSingleBuckets) => NextFree(k) < Len(V)
    /\ (pc = "step4" /\ ~MoreSingleBuckets) => nCheck = nKeys

\* the loop of step 4 has placed single keys after a seeded bucket and the
\* check of line 130 has passed
C10_Witness ==
    /\ pc = "returned"
    /\ nKeys >= 3
    /\ Cardinality(DirectEntries) >= 1
    /\ Cardinality(SeedEntries) >= 1
    /\ nCheck = nKeys

(***************************************************************************)
(* Properties of the codec.                                                *)
(***************************************************************************)
\* loadFile has returned its tuple
LoadReturned == fPc \in {"loaded", "checked", "passed"}
   \/ (fPc \in {"checkRaised", "failed"} /\ fRaised \in {"KeyError", "IndexError"})

\* loadFile has ended with an exception
LoadRaised == fPc = "loadRaised"
   \/ (fPc \in {"checkRaised", "failed"} /\ fRaised \notin {"KeyError", "IndexError"})

\* C4 (round trip): loadFile applied to the bytes the encoder of createFile
\* wrote for an artifact returns, and returns the width, height, number of
\* entries, G and V of the artifact; a G entry -1 is written as
\* FF FF FF FF and read back as -1.
C4_RoundTrip ==
    artifact # None =>
        /\ ~LoadRaised
        /\ LoadReturned =>
              /\ width = artifact.width
              /\ height = artifact.height
              /\ nChars = Big(Len(artifact.G))
              /\ \A i \in DOMAIN artifact.G :
                    /\ LoadedG[i - 1] = artifact.G[i]
                    /\ artifact.G[i] = Big(-1) =>
                          Read(infile, 8 + 4 * (i - 1), 4) = <<255, 255, 255, 255>>
              /\ \A i \in DOMAIN artifact.V : LoadedV[i - 1] = artifact.V[i]

\* an artifact of two entries with a direct slot and a seed in G was
\* encoded and loaded
C4_Witness ==
    /\ artifact # None
    /\ fPc = "loaded"
    /\ Len(artifact.G) = 2
    /\ artifact.width = 2
    /\ \E i \in DOMAIN artifact.G : BigIsNeg(artifact.G[i])
    /\ \E i \in DOMAIN artifact.G : artifact.G[i] = Big(FNV1MASK)

\* the bytes of the file, read off the file itself
FileHasMagic ==
    StreamLen(infile) >= 2 /\ Read(infile, 0, 2) = <<250, 255>>
FileHasHeader == StreamLen(infile) >= 8
FileWidth == ByteAt(infile, 2)
FileHeight == ByteAt(infile, 3)
FileCount == UnpackUInt32(Read(infile, 4, 4))

\* the stream holds the G and V bytes that its header declares
FileHoldsTables ==
    BigLeq(FileCount,
           Big((StreamLen(infile) - 8)
                  \div (4 + 3 + BitmapSize(FileWidth, FileHeight))))

\* the exception the checks give when taken in the order signature, header,
\* zero width, zero height, zero entry count, length of the tables
FirstFailedCheck ==
    IF ~FileHasMagic THEN "ValueError: File signature not found."
    ELSE IF ~FileHasHeader THEN "struct.error"
    ELSE IF FileWidth = 0 THEN "IndexError: Zero width detected."
    ELSE IF FileHeight = 0 THEN "IndexError: Zero height detected."
    ELSE IF FileCount = Big(0) THEN "IndexError: Empty table detected."
    ELSE IF ~FileHoldsTables THEN "struct.error"
    ELSE "none"

\* C7 (invalid file rejection): on a stream whose first two bytes are not
\* FA FF, or whose header declares more G and V bytes than the stream
\* holds, loadFile raises and returns no tuple, loadAndCheckFile raises the
\* same exception and checkFile returns 1; the exception is that of the
\* first check that fails in the order signature, zero width, zero height,
\* zero entry count, table length.
C7_InvalidFileRejected ==
    /\ LoadReturned => FirstFailedCheck = "none"
    /\ LoadRaised => fRaised = FirstFailedCheck
    /\ (fPc \in {"passed", "failed"} /\ FirstFailedCheck # "none") =>
          (exitCode = 1 /\ fRaised = FirstFailedCheck)
    /\ exitCode = 0 => FirstFailedCheck = "none"

\* a file with a good signature and header whose V table lacks its last
\* byte was rejected by checkFile
C7_Witness ==
    /\ fPc = "failed"
    /\ fRaised = "struct.error"
    /\ FileHasMagic
    /\ FileHasHeader
    /\ FileWidth > 0
    /\ FileHeight > 0
    /\ BigLeq(Big(1), FileCount)
    /\ BigLeq(FileCount, Big(MAXUCODE))
    /\ StreamLen(infile)
          = 8 + BigToInt(FileCount) * (4 + 3 + BitmapSize(FileWidth, FileHeight)) - 1

\* C8 (header range validation): a file whose width or height is outside
\* [1, 255] or whose entry count is outside [1, 0x10ffff] is rejected:
\* loadFile does not return its tables and checkFile does not pass it.
C8_HeaderRangeRejected ==
    (LoadReturned \/ exitCode = 0) =>
        /\ width \in 1..255
        /\ height \in 1..255
        /\ BigLeq(Big(1), nChars)
        /\ BigLeq(nChars, Big(MAXUCODE))


(***************************************************************************)
(* renderString (lines 405-448) on files that no encoder of this program   *)
(* wrote: the tables are well-formed, the entries of G are any int32.      *)
(***************************************************************************)
\* the int32 values an entry of G of n entries is drawn from
UntrustedG(n) ==
    { Big(0), Big(1), Big(FNV1MASK), Big(-1), Big(-n), Big(-(n + 1)),
      <<-(Limb \div 2), 0>> }

\* files of width 1 and height 1 with n entries
UntrustedFiles ==
    UNION { { <<Segment(EncodeArtifact([width |-> 1, height |-> 1,
                                        G |-> g, V |-> v]), 1)>> :
                g \in [1..n -> UntrustedG(n)],
                v \in [1..n -> VSamples(1, 1)] } :
            n \in 1..MaxEntries }
    \cup { <<Segment(<<250, 255, 1, 1, 0, 0, 0, 1>>, 1)>> }

\* line 408: renderString calls loadAndCheckFile, which calls loadFile
EnterRender ==
    /\ fPc = "idle"
    /\ \E raw \in UntrustedFiles : infile' = raw
    /\ pos' = 0
    /\ fPc' = "signature"
    /\ UNCHANGED <<artifact, width, height, nChars, fRaised, exitCode>>
    /\ UNCHANGED <<buildVars, hashVars, orderVars>>

\* lines 409-412: any exception of loadAndCheckFile ends renderString with 1
RenderCheckFailed ==
    /\ fPc = "checkRaised"
    /\ exitCode' = 1
    /\ fPc' = "failed"
    /\ UNCHANGED <<artifact, infile, pos, width, height, nChars, fRaised>>
    /\ UNCHANGED <<buildVars, hashVars, orderVars>>

\* lines 436-439: the bitmap of a character; only KeyError is handled
RenderLookUp(key) ==
    LET first == lookUp(BigToInt(nChars), LoadedG, LoadedV, key)
    IN  IF first.status = "KeyError"
        THEN lookUp(BigToInt(nChars), LoadedG, LoadedV, REPLACEMENT)
        ELSE first

\* lines 435-445: one character of args.text
RenderCharacter ==
    /\ fPc \in {"checked", "rendering"}
    /\ \E key \in Keys :
        /\ lookupKey' = key
        /\ lookupResult' = RenderLookUp(key)
        /\ IF RenderLookUp(key).status = "returned"
           THEN fPc' = "rendering" /\ UNCHANGED fRaised
           ELSE fPc' = "renderRaised" /\ fRaised' = RenderLookUp(key).status
    /\ UNCHANGED <<artifact, infile, pos, width, height, nChars, exitCode>>
    /\ UNCHANGED <<source, nKeys, nCheck, nCollisions, buckets, G, V, keyIdx,
                   bucket, seed, k, slots, pc, raised>>
    /\ UNCHANGED <<hashVars, orderVars>>

\* lines 447-448: the text is exhausted
RenderReturn ==
    /\ fPc \in {"checked", "rendering"}
    /\ exitCode' = 0
    /\ fPc' = "rendered"
    /\ UNCHANGED <<artifact, infile, pos, width, height, nChars, fRaised>>
    /\ UNCHANGED <<buildVars, hashVars, orderVars>>

NextRender ==
    \/ EnterRender
    \/ ReadSignature
    \/ ReadHeader
    \/ CheckDimensions
    \/ ReadG
    \/ ReadV
    \/ ReraiseLoadError
    \/ CheckReplacement
    \/ RenderCheckFailed
    \/ RenderCharacter
    \/ RenderReturn

SpecRender == Init /\ [][NextRender]_vars

\* the ways lookUp can end other than by returning or by KeyError
LookUpFailures == {"IndexError", "TypeError", "ZeroDivisionError"}

\* C11: on decoded tables with len(G) = len(V) = n >= 1 and any int32 in G,
\* every lookUp (lines 203, 437, 439) ends by returning the value stored
\* with exactly the key looked up or in KeyError, never in another failure
\* such as an index outside 0..n-1, so renderString, which handles KeyError
\* only, never ends in an exception of a lookup.
C11_UntrustedLookUp ==
    /\ fRaised \notin LookUpFailures
    /\ fPc # "renderRaised"
    /\ fPc = "rendering" =>
        \E i \in DOMAIN LoadedV :
            /\ LoadedV[i][1] \in {lookupKey, REPLACEMENT}
            /\ LoadedV[i][2] = lookupResult.value


(***************************************************************************)
(* createMinimalPerfectHash (lines 58-134) called twice on one mapping,    *)
(* the second time with the keys of the dict in another order.             *)
(***************************************************************************)
\* the orders the n keys of a dict can be iterated in
Orders(n) == { p \in [1..n -> 1..n] : \A i, j \in 1..n : p[i] = p[j] => i = j }

\* lines 68-74 of the second call; what the first call ended with is kept
BuildAgain ==
    /\ pc \in {"returned", "raised"}
    /\ firstRun = None
    /\ firstRun' = [source |-> source, pc |-> pc, raised |-> raised,
                    G |-> G, V |-> V, nCollisions |-> nCollisions]
    /\ \E p \in Orders(Len(source)) :
          source' = [i \in DOMAIN source |-> source[p[i]]]
    /\ nKeys' = Len(source)
    /\ nCheck' = 0
    /\ nCollisions' = Big(0)
    /\ buckets' = [i \in 1..Len(source) |-> <<>>]
    /\ G' = [i \in 1..Len(source) |-> Big(0)]
    /\ V' = [i \in 1..Len(source) |-> None]
    /\ keyIdx' = 1
    /\ bucket' = <<>>
    /\ seed' = Big(0)
    /\ k' = 0
    /\ slots' = <<>>
    /\ raised' = "none"
    /\ pc' = "step1"
    /\ UNCHANGED <<lookupKey, lookupResult>>
    /\ UNCHANGED <<hashVars, fileVars>>

NextOrder ==
    \/ EnterBuild
    \/ AddToBucket
    \/ SortBuckets
    \/ PopBucket
    \/ TrySlot
    \/ RejectPeriods
    \/ RecordSeed
    \/ EnterStep4
    \/ PlaceSingle
    \/ Finish
    \/ BuildAgain

SpecOrder == Init /\ [][NextOrder]_vars

\* C12 (order independence): two calls of createMinimalPerfectHash on the
\* same key/value pairs iterated in different orders both return or both
\* fail; when they return, G, V and the collision count are identical, and
\* when they fail, they fail with the same error.
C12_OrderIndependent ==
    (firstRun # None /\ pc \in {"returned", "raised"}) =>
        /\ pc = firstRun.pc
        /\ raised = firstRun.raised
        /\ pc = "returned" =>
            /\ G = firstRun.G
            /\ V = firstRun.V
            /\ nCollisions = firstRun.nCollisions

\* the second call has returned; two keys of one bucket came in the
\* opposite order, the seed search rejected at least one seed, and step 4
\* placed a single key
C12_Witness ==
    /\ firstRun # None
    /\ pc = "returned"
    /\ nCollisions # Big(0)
    /\ DirectEntries # {}
    /\ \E i, j \in DOMAIN source, a, b \in DOMAIN source :
        /\ i < j
        /\ b < a
        /\ firstRun.source[a] = source[i]
        /\ firstRun.source[b] = source[j]
        /\ Primary(source[i][1], nKeys) = Primary(source[j][1], nKeys)

====
